---- MODULE Spec2Model ----
(***************************************************************************)
(* Client-side session state machine of the tutorial's InteractiveTerminal *)
(* (plugins/claude-code-team-plugin/tutorial).  The Redux slice state is   *)
(* the record `store`; reducers are operators store -> store and every     *)
(* WebSocket callback, user handler and timer callback is one action that  *)
(* applies its dispatches in program order.                                *)
(*                                                                         *)
(* Text is a sequence of symbols (<<"a","b">> is the text "ab"), so that   *)
(* concatenation order is observable.  Entry timestamps (Date.now()) are   *)
(* not modelled.                                                           *)
(***************************************************************************)
EXTENDS Integers, Sequences, FiniteSets, TLC

VARIABLES store,        \* the Redux slice state
          isConnected,  \* the component's useState flag
          readyState,   \* of the module-level ws ("NULL": ws is null)
          sent,         \* outbound messages written to the socket, in order
          cardExiting,  \* permission card unmounting (exit animation)
          demoTimers,   \* outstanding handleDemoResponse timers
          uncaught,     \* the last callback ended in an uncaught exception
          turn,         \* history: chunks of the current streaming turn
          decided,      \* history: permission_response messages sent since
                        \* the last permission_prompt event
          stale,        \* a socket replaced in ws whose callbacks are still
                        \* outstanding ("NONE": there is none)
          spent,        \* history: transcript entries removed by clearTerminal
                        \* and sockets replaced by a remount
          replaced,     \* history: the last permission_prompt event arrived
                        \* while a request was pending
          chatTimers,   \* outstanding timers of ClaudeChat.handleSubmit
          sh            \* the run of a hook script (scripts/*.sh)

termVars == <<store, isConnected, readyState, sent, cardExiting, demoTimers,
              uncaught, turn, decided, stale, spent, replaced, chatTimers>>

vars == <<store, isConnected, readyState, sent, cardExiting, demoTimers,
          uncaught, turn, decided, stale, spent, replaced,
          chatTimers, sh>>

(* ------------------------------ bounds --------------------------------- *)
\* cap on the size of the session: transcript entries appended after the
\* start of the demo (kept or cleared) + buffered symbols + outstanding demo
\* responses + outbound messages + remounts + one for a permission request
\* that was replaced while pending + one for a frame whose callback has just
\* ended in an uncaught exception
MaxWork == 3

\* the same cap where the WebSocket constructor threw (ws stays null): no
\* socket event occurs and every response is a local one
MaxDemoWork == 5

\* cap on the chat: messages + outstanding replies
MaxChat == 4

\* cap on the length of completedSteps (nextStep pushes without a check)
MaxCompleted == 6
(* ----------------------------- vocabulary ------------------------------ *)
None == <<"none">>

Chunks == {<<"a">>, <<"b">>}
ToolTexts == {<<"tool">>}
ResultTexts == {<<"result">>}
PromptTexts == {<<"prompt">>, <<"again">>}
ResponseTexts == {<<"done">>}
Choices == {"y", "n", "a"}
Inputs == {<<>>, <<" ">>, <<" ", "x">>, <<"/rubber-duck", " ">>}

ConnectedNotice == <<"connected">>
LostNotice == <<"lost">>
FailedNotice == <<"failed">>
DemoModeNotice == <<"demomode">>
DemoActivatedNotice == <<"activated">>
DemoQuestions == <<"questions">>
DemoPrefix == <<"demo:">>

EventTypes == {"stream_chunk", "tool_use", "tool_result", "permission_prompt",
               "response_complete", "typing_start", "typing_end",
               "ai_response", "pong", "unknown"}

(* ------------------------- pure helpers -------------------------------- *)
RECURSIVE Flatten(_)
Flatten(ss) == IF ss = <<>> THEN <<>> ELSE Head(ss) \o Flatten(Tail(ss))

RECURSIVE TrimStart(_)
TrimStart(t) == IF t # <<>> /\ Head(t) = " " THEN TrimStart(Tail(t)) ELSE t

RECURSIVE TrimEnd(_)
TrimEnd(t) ==
    IF t # <<>> /\ t[Len(t)] = " " THEN TrimEnd(SubSeq(t, 1, Len(t) - 1)) ELSE t

Trim(t) == TrimEnd(TrimStart(t))

Includes(t, sym) == \E i \in 1..Len(t) : t[i] = sym

(* ------------------------------ frames --------------------------------- *)
Frame(shape, type, content) ==
    [shape |-> shape, type |-> type, content |-> content]

ContentsOf(type) ==
    CASE type = "stream_chunk" -> Chunks
      [] type = "tool_use" -> ToolTexts
      [] type = "tool_result" -> ResultTexts
      [] type = "permission_prompt" -> PromptTexts
      [] type = "ai_response" -> ResponseTexts
      [] OTHER -> {<<>>}

ObjectFrames ==
    UNION {{Frame("object", ty, c) : c \in ContentsOf(ty)} : ty \in EventTypes}

BadFrames ==
    {Frame("malformed", "", <<>>), Frame("null", "", <<>>),
     Frame("scalar", "", <<>>)}

Frames == ObjectFrames \cup BadFrames

JSONParse(frame) ==
    IF frame.shape = "malformed"
    THEN [ok |-> FALSE, value |-> frame]
    ELSE [ok |-> TRUE, value |-> frame]

(* ------------------------------ reducers ------------------------------- *)
Entry(type, content) == [type |-> type, content |-> content]

\* initialSteps: id and type of each step
Steps ==
    <<[id |-> "welcome", type |-> "intro"],
      [id |-> "concept", type |-> "concept"],
      [id |-> "rubber-duck", type |-> "command"]>>

initialState ==
    [currentStep |-> 0,
     isConnected |-> FALSE,
     isDemoActive |-> FALSE,
     terminalHistory |-> <<>>,
     chatMessages |-> <<>>,
     confidence |-> "unclear",
     isAiTyping |-> FALSE,
     isChatTyping |-> FALSE,
     completedSteps |-> <<>>,
     streamingText |-> <<>>,
     isStreaming |-> FALSE,
     permissionPrompt |-> None]

\* mutant: the new entry replaces the transcript
addTerminalMessage_Replaces(s, type, content) ==
    [s EXCEPT !.terminalHistory = <<Entry(type, content)>>]

addTerminalMessage(s, type, content) ==
    [s EXCEPT !.terminalHistory = Append(@, Entry(type, content))]

\* state.steps[i], for the index i of JavaScript
StepAt(i) == Steps[i + 1]

nextStep(s) ==
    IF s.currentStep < Len(Steps) - 1
    THEN [s EXCEPT !.completedSteps = Append(@, StepAt(s.currentStep).id),
                   !.currentStep = @ + 1]
    ELSE s

previousStep(s) ==
    IF s.currentStep > 0 THEN [s EXCEPT !.currentStep = @ - 1] ELSE s

jumpToStep(s, index) ==
    IF index >= 0 /\ index < Len(Steps)
    THEN [s EXCEPT !.currentStep = index]
    ELSE s

setConnected(s, b) == [s EXCEPT !.isConnected = b]

setConfidence(s, c) == [s EXCEPT !.confidence = c]

setAiTyping(s, b) == [s EXCEPT !.isAiTyping = b]

clearTerminal(s) == [s EXCEPT !.terminalHistory = <<>>]

addChatMessage(s, type, content) ==
    [s EXCEPT !.chatMessages = Append(@, Entry(type, content))]

setChatTyping(s, b) == [s EXCEPT !.isChatTyping = b]

setDemoActive(s, b) == [s EXCEPT !.isDemoActive = b]

(* Streaming Accumulator.append, preceded by start when the accumulator is *)
(* not active: the fragment is concatenated in arrival order.              *)
appendStreamingText(s, fragment) ==
    [s EXCEPT !.streamingText = (IF s.isStreaming THEN @ ELSE <<>>) \o fragment,
              !.isStreaming = TRUE]

(* Streaming Accumulator.start: active, empty text.                        *)
clearStreamingText(s) ==
    [s EXCEPT !.streamingText = <<>>, !.isStreaming = TRUE]

(* Streaming Accumulator.finalize.  The handlers dispatch it and use no    *)
(* return value, so the reducer itself folds the text into the transcript: *)
(* when the buffer is inactive or empty nothing is appended, otherwise the *)
(* accumulated text becomes one agent entry; the buffer ends empty and     *)
(* inactive (it is reset whenever a turn finalizes).                       *)
finalizeStreaming(s) ==
    LET folded == IF s.isStreaming /\ s.streamingText # <<>>
                  THEN addTerminalMessage(s, "ai", s.streamingText)
                  ELSE s
    IN  [folded EXCEPT !.streamingText = <<>>, !.isStreaming = FALSE]

setPermissionPrompt(s, prompt) == [s EXCEPT !.permissionPrompt = prompt]

clearPermissionPrompt(s) == [s EXCEPT !.permissionPrompt = None]

(* CommandDemo.startDemo: the terminal is rendered once isDemoActive holds *)
onStartDemo(s) ==
    addTerminalMessage(
        setConfidence(clearTerminal(setDemoActive(s, TRUE)), "unclear"),
        "system", DemoActivatedNotice)

(* --------------------------- presentation ------------------------------ *)
(* AnimatePresence keeps the permission card (and its buttons) mounted     *)
(* while the exit animation of a removed prompt runs.                      *)
CardAfter(s1, s2, exiting) ==
    IF s2.permissionPrompt # None THEN FALSE
    ELSE IF s1.permissionPrompt # None THEN TRUE
    ELSE exiting

CardMounted == store.permissionPrompt # None \/ cardExiting

\* JavaScript truthiness of a value that is null or a string
Truthy(text) == text # None /\ text # <<>>

\* {isStreaming && streamingText && ...}: the live streaming text
ShowsStreamingText == store.isStreaming /\ Truthy(store.streamingText)

\* mutant: the indicator of ClaudeTerminal, which follows isAiTyping alone
ShowsTypingIndicator_WheneverBusy == store.isAiTyping

\* {isAiTyping && !isStreaming && !permissionPrompt && <TypingIndicator />}
ShowsTypingIndicator ==
    /\ store.isAiTyping
    /\ ~store.isStreaming
    /\ ~Truthy(store.permissionPrompt)

\* transcript entries after the notice startDemo leaves at the head
SessionEntries(s) == Tail(s.terminalHistory)

Work(s, timers, out) ==
    Len(SessionEntries(s)) + Len(s.streamingText) + Len(timers) + Len(out)

\* a permission request that was replaced while pending
Abandoned(flag) == IF flag THEN 1 ELSE 0

\* the cap on the size of the session
Cap == IF readyState = "NULL" THEN MaxDemoWork ELSE MaxWork

Within(s, timers, out) ==
    spent + Abandoned(replaced) + Work(s, timers, out) <= Cap

(* ----------------------------- socket ---------------------------------- *)
WsOpen == readyState = "OPEN"

(* message events are delivered to an open socket, and to a socket whose   *)
(* close() was called until its close event fires: a replaced socket keeps *)
(* its callbacks                                                           *)
Receiving == WsOpen \/ stale = "CLOSING"

(* history variable: the chunks received since the streaming buffer was   *)
(* last started (by typing_start, or by a permission decision, which also  *)
(* records whether it dropped text from the buffer), as long as nothing but *)
(* stream_chunk has touched the streaming buffer                           *)
NoTurn == [open |-> FALSE, chunks |-> <<>>, dropped |-> FALSE]

(* no hook script is running                                               *)
NoScript == [script |-> "none"]

(* ------------------------------ Init ----------------------------------- *)
(* State after startDemo and the mount of the terminal it causes:          *)
(* connectToClaudeCode ran; either the socket was created (CONNECTING) or  *)
(* the constructor threw and ws is still null.  The mount effect of App    *)
(* ran before: it dispatched setConnected(true).                           *)
onAppMount(s) == setConnected(s, TRUE)

Init ==
    /\ isConnected = FALSE
    /\ sent = <<>>
    /\ cardExiting = FALSE
    /\ demoTimers = <<>>
    /\ uncaught = FALSE
    /\ turn = NoTurn
    /\ decided = 0
    /\ stale = "NONE"
    /\ spent = 0
    /\ replaced = FALSE
    /\ chatTimers = <<>>
    /\ sh = NoScript
    /\ \/ /\ readyState = "CONNECTING"
          /\ store = onStartDemo(onAppMount(initialState))
       \/ /\ readyState = "NULL"
          /\ store = addTerminalMessage(onStartDemo(onAppMount(initialState)),
                                        "system", DemoModeNotice)

(* --------------------- cases of ws.onmessage --------------------------- *)
\* mutant: every chunk is appended to the transcript as its own entry
onStreamChunk_PerChunkEntry(s, content) ==
    addTerminalMessage(appendStreamingText(s, content), "ai", content)

\* mutant: a chunk marks the agent busy
onStreamChunk_MarksBusy(s, content) ==
    setAiTyping(appendStreamingText(s, content), TRUE)

onStreamChunk(s, content) == appendStreamingText(s, content)

\* mutant: the tool announcement is recorded before the buffer is finalized
onToolUse_AnnounceFirst(s, content) ==
    finalizeStreaming(addTerminalMessage(s, "ai", content))

onToolUse(s, content) ==
    addTerminalMessage(finalizeStreaming(s), "ai", content)

\* mutant: the buffer is finalized before the result is recorded
onToolResult_Finalizes(s, content) ==
    addTerminalMessage(finalizeStreaming(s), "system", content)

onToolResult(s, content) == addTerminalMessage(s, "system", content)

\* mutant: the prompt is set without marking the agent not busy
onPermissionPrompt_StaysBusy(s, content) == setPermissionPrompt(s, content)

\* mutant: a prompt arriving while a request is pending is dropped
onPermissionPrompt_KeepsFirst(s, content) ==
    IF s.permissionPrompt # None
    THEN setAiTyping(s, FALSE)
    ELSE setAiTyping(setPermissionPrompt(s, content), FALSE)

onPermissionPrompt(s, content) ==
    setAiTyping(setPermissionPrompt(s, content), FALSE)

\* mutant: the pending permission request is not cleared
onResponseComplete_KeepsPrompt(s) ==
    setAiTyping(finalizeStreaming(s), FALSE)

onResponseComplete(s) ==
    clearPermissionPrompt(setAiTyping(finalizeStreaming(s), FALSE))

\* mutant: the agent is marked busy and the buffered text is kept
onTypingStart_KeepsText(s) ==
    [setAiTyping(s, TRUE) EXCEPT !.isStreaming = TRUE]

onTypingStart(s) == clearStreamingText(setAiTyping(s, TRUE))

onTypingEnd(s) == setAiTyping(s, FALSE)

\* mutant: the buffer is not finalized before the legacy response
onAiResponse_NoFinalize(s, content) ==
    addTerminalMessage(setAiTyping(s, FALSE), "ai", content)

onAiResponse(s, content) ==
    addTerminalMessage(finalizeStreaming(setAiTyping(s, FALSE)), "ai", content)

\* mutant: a type without a case ends the busy state
onUnrecognized_EndsTyping(s, data) == setAiTyping(s, FALSE)

(* pong and unrecognized types match no case of the switch                 *)
onUnrecognized(s, data) == s

(* the switch on data.type                                                 *)
Dispatch(s, data) ==
    CASE data.type = "stream_chunk" -> onStreamChunk(s, data.content)
      [] data.type = "tool_use" -> onToolUse(s, data.content)
      [] data.type = "tool_result" -> onToolResult(s, data.content)
      [] data.type = "permission_prompt" -> onPermissionPrompt(s, data.content)
      [] data.type = "response_complete" -> onResponseComplete(s)
      [] data.type = "typing_start" -> onTypingStart(s)
      [] data.type = "typing_end" -> onTypingEnd(s)
      [] data.type = "ai_response" -> onAiResponse(s, data.content)
      [] OTHER -> onUnrecognized(s, data)

(* History of the current turn: opened by typing_start, extended by every  *)
(* stream_chunk, closed (chunks kept) by the boundary events tool_use and  *)
(* response_complete, dropped by anything else that touches the buffer.    *)
TurnAfter(t, data) ==
    CASE data.type = "typing_start" ->
            [open |-> TRUE, chunks |-> <<>>, dropped |-> FALSE]
      [] data.type = "stream_chunk" ->
            IF t.open THEN [t EXCEPT !.chunks = Append(@, data.content)] ELSE t
      [] data.type \in {"tool_use", "response_complete"} ->
            IF t.open THEN [t EXCEPT !.open = FALSE] ELSE NoTurn
      [] data.type = "ai_response" -> NoTurn
      [] OTHER -> t

(* ws.onmessage, of the socket in ws or of a replaced one                  *)
OnMessage(frame) ==
    /\ Receiving
    /\ LET parsed == JSONParse(frame) IN
       IF ~parsed.ok \/ parsed.value.shape = "null"
       THEN \* JSON.parse throws SyntaxError / data.type throws TypeError
            /\ uncaught' = TRUE
            /\ spent + Abandoned(replaced) + Work(store, demoTimers, sent) + 1
                  <= Cap
            /\ UNCHANGED <<store, cardExiting, turn, decided, replaced>>
       ELSE IF parsed.value.shape = "scalar"
       THEN /\ uncaught' = FALSE
            /\ UNCHANGED <<store, cardExiting, turn, decided, replaced>>
       ELSE /\ store' = Dispatch(store, parsed.value)
            /\ cardExiting' = CardAfter(store, store', cardExiting)
            /\ turn' = TurnAfter(turn, parsed.value)
            /\ decided' = IF parsed.value.type = "permission_prompt"
                          THEN 0 ELSE decided
            /\ replaced' = IF parsed.value.type = "permission_prompt"
                           THEN store.permissionPrompt # None ELSE replaced
            /\ spent + Abandoned(replaced') + Work(store', demoTimers, sent)
                  <= MaxWork
            /\ uncaught' = FALSE
    /\ UNCHANGED <<isConnected, readyState, sent, demoTimers, stale,
                   spent, chatTimers, sh>>

onOpen(s) == addTerminalMessage(s, "system", ConnectedNotice)

onError(s) == addTerminalMessage(s, "system", FailedNotice)

\* mutant: the pending permission request survives the close
onClose_KeepsPrompt(s) ==
    addTerminalMessage(finalizeStreaming(s), "system", LostNotice)

onClose(s) ==
    addTerminalMessage(clearPermissionPrompt(finalizeStreaming(s)),
                       "system", LostNotice)

(* ws.onopen *)
OnOpen ==
    /\ readyState = "CONNECTING"
    /\ readyState' = "OPEN"
    /\ isConnected' = TRUE
    /\ store' = onOpen(store)
    /\ Within(store', demoTimers, sent)
    /\ uncaught' = FALSE
    /\ UNCHANGED <<sent, cardExiting, demoTimers, turn, decided, stale, spent, replaced, chatTimers, sh>>

(* ws.onerror: the browser fires error, then close, for a failed socket;   *)
(* "FAILED" is the interval between the two callbacks.                     *)
OnError ==
    /\ readyState \in {"CONNECTING", "OPEN"}
    /\ readyState' = "FAILED"
    /\ isConnected' = FALSE
    /\ store' = onError(store)
    /\ Within(store', demoTimers, sent)
    /\ uncaught' = FALSE
    /\ UNCHANGED <<sent, cardExiting, demoTimers, turn, decided, stale, spent, replaced, chatTimers, sh>>

(* ws.onclose *)
OnClose ==
    /\ readyState \in {"CONNECTING", "OPEN", "FAILED"}
    /\ readyState' = "CLOSED"
    /\ isConnected' = FALSE
    /\ store' = onClose(store)
    /\ Within(store', demoTimers, sent)
    /\ cardExiting' = CardAfter(store, store', cardExiting)
    /\ turn' = NoTurn
    /\ uncaught' = FALSE
    /\ UNCHANGED <<sent, demoTimers, decided, stale, spent, replaced, chatTimers, sh>>

(* onerror of a replaced socket: its setIsConnected belongs to the         *)
(* component instance that was unmounted                                   *)
StaleError ==
    /\ stale = "ABORTED"
    /\ stale' = "FAILED"
    /\ store' = onError(store)
    /\ Within(store', demoTimers, sent)
    /\ uncaught' = FALSE
    /\ UNCHANGED <<isConnected, readyState, sent, cardExiting, demoTimers,
                   turn, decided, spent, replaced, chatTimers, sh>>

(* onclose of a replaced socket                                            *)
StaleClose ==
    /\ stale \in {"CLOSING", "FAILED"}
    /\ stale' = "NONE"
    /\ store' = onClose(store)
    /\ Within(store', demoTimers, sent)
    /\ cardExiting' = CardAfter(store, store', cardExiting)
    /\ turn' = NoTurn
    /\ uncaught' = FALSE
    /\ UNCHANGED <<isConnected, readyState, sent, demoTimers, decided,
                   spent, replaced, chatTimers, sh>>

(* The terminal is unmounted and mounted again.  The cleanup of the mount  *)
(* effect calls ws.close(): a socket that was open awaits its close event  *)
(* ("CLOSING"), one that was connecting fails ("ABORTED": error, then      *)
(* close).  The mount effect of the new instance runs connectToClaudeCode, *)
(* which assigns a new socket to ws; the replaced socket keeps its         *)
(* callbacks, whose setIsConnected belongs to the unmounted instance.      *)
(* Where the constructor throws, ws stays null and the catch clause        *)
(* reports.  At most one replaced socket with outstanding callbacks is     *)
(* followed.                                                               *)
Remount ==
    /\ IF readyState = "NULL"
       THEN /\ store' = addTerminalMessage(store, "system", DemoModeNotice)
            /\ UNCHANGED <<readyState, stale>>
       ELSE /\ readyState' = "CONNECTING"
            /\ IF readyState = "CLOSED"
               THEN UNCHANGED stale
               ELSE /\ stale = "NONE"
                    /\ stale' = CASE readyState = "CONNECTING" -> "ABORTED"
                                  [] readyState = "OPEN" -> "CLOSING"
                                  [] OTHER -> "FAILED"
            /\ UNCHANGED store
    /\ spent' = spent + 1
    /\ spent' + Abandoned(replaced) + Work(store', demoTimers, sent) <= Cap
    /\ isConnected' = FALSE
    /\ cardExiting' = FALSE
    /\ uncaught' = FALSE
    /\ UNCHANGED <<sent, demoTimers, turn, decided, replaced, chatTimers, sh>>

(* CommandDemo.startDemo, pressed again while the demo is active           *)
StartDemo ==
    /\ store' = onStartDemo(store)
    /\ spent' = spent + Len(SessionEntries(store))
    /\ uncaught' = FALSE
    /\ UNCHANGED <<isConnected, readyState, sent, cardExiting, demoTimers,
                   turn, decided, stale, replaced, chatTimers, sh>>

Msg(type, body) == [type |-> type, body |-> body]

DemoReply(command) ==
    IF Includes(command, "/rubber-duck") \/ Includes(command, "notification")
    THEN DemoQuestions
    ELSE DemoPrefix \o command

(* handleDemoResponse: two setTimeout calls (500 ms and 1500 ms)           *)
handleDemoResponse(timers, command) ==
    Append(timers, [command |-> command, phase |-> "scheduled"])

\* mutant: the entry holds the text as typed
onSubmit_Untrimmed(s, input) == addTerminalMessage(s, "user", input)

onSubmit(s, input) == addTerminalMessage(s, "user", Trim(input))

(* handleSubmit *)
HandleSubmit(input) ==
    /\ IF Trim(input) = <<>>
       THEN /\ uncaught' = FALSE
            /\ UNCHANGED <<store, isConnected, readyState, sent, cardExiting,
                           demoTimers, turn, decided>>
       ELSE /\ IF WsOpen
               THEN /\ sent' = Append(sent, Msg("command", Trim(input)))
                    /\ store' = setAiTyping(onSubmit(store, input), TRUE)
                    /\ UNCHANGED demoTimers
               ELSE /\ store' = onSubmit(store, input)
                    /\ demoTimers' = handleDemoResponse(demoTimers, Trim(input))
                    /\ UNCHANGED sent
            /\ Within(store', demoTimers', sent')
            /\ uncaught' = FALSE
            /\ UNCHANGED <<isConnected, readyState, cardExiting, turn, decided>>
    /\ UNCHANGED <<stale, spent, replaced, chatTimers, sh>>

\* mutant: the agent is not marked busy after the decision
onPermissionResponse_NotBusy(s) ==
    clearStreamingText(clearPermissionPrompt(s))

\* mutant: the decision folds the buffered text into the transcript
onPermissionResponse_Folds(s) ==
    clearStreamingText(
        finalizeStreaming(setAiTyping(clearPermissionPrompt(s), TRUE)))

onPermissionResponse(s) ==
    clearStreamingText(setAiTyping(clearPermissionPrompt(s), TRUE))

(* History of the turn a permission decision starts: clearStreamingText    *)
(* empties the buffer; the history records whether it held text.          *)
TurnAfterDecision(s) ==
    [open |-> TRUE, chunks |-> <<>>, dropped |-> s.streamingText # <<>>]

(* handlePermissionResponse, reached from the buttons of the mounted card  *)
HandlePermissionResponse(choice) ==
    /\ CardMounted
    /\ IF WsOpen
       THEN /\ sent' = Append(sent, Msg("permission_response", <<choice>>))
            /\ decided' = decided + 1
       ELSE UNCHANGED <<sent, decided>>
    /\ store' = onPermissionResponse(store)
    /\ Within(store', demoTimers, sent')
    /\ cardExiting' = CardAfter(store, store', cardExiting)
    /\ turn' = TurnAfterDecision(store)
    /\ uncaught' = FALSE
    /\ UNCHANGED <<isConnected, readyState, demoTimers, stale, spent, replaced, chatTimers, sh>>

(* exit animation of the permission card finished: the card is unmounted   *)
CardExitComplete ==
    /\ cardExiting
    /\ cardExiting' = FALSE
    /\ UNCHANGED <<store, isConnected, readyState, sent, demoTimers,
                   uncaught, turn, decided, stale, spent, replaced, chatTimers, sh>>

(* the 500 ms timer of the i-th outstanding demo response                  *)
DemoTypingTimer(i) ==
    /\ i \in 1..Len(demoTimers)
    /\ demoTimers[i].phase = "scheduled"
    /\ \A j \in 1..(i - 1) : demoTimers[j].phase = "typing"
    /\ demoTimers' = [demoTimers EXCEPT ![i].phase = "typing"]
    /\ store' = setAiTyping(store, TRUE)
    /\ uncaught' = FALSE
    /\ UNCHANGED <<isConnected, readyState, sent, cardExiting, turn, decided,
                   stale, spent, replaced, chatTimers, sh>>

\* mutant: the reply is recorded without ending the busy state
onDemoResponse_StaysBusy(s, command) ==
    addTerminalMessage(s, "ai", DemoReply(command))

onDemoResponse(s, command) ==
    addTerminalMessage(setAiTyping(s, FALSE), "ai", DemoReply(command))

(* the 1500 ms timer of the oldest outstanding demo response               *)
DemoResponseTimer ==
    /\ demoTimers # <<>>
    /\ Head(demoTimers).phase = "typing"
    /\ demoTimers' = Tail(demoTimers)
    /\ store' = onDemoResponse(store, Head(demoTimers).command)
    /\ Within(store', demoTimers', sent)
    /\ uncaught' = FALSE
    /\ UNCHANGED <<isConnected, readyState, sent, cardExiting, turn, decided,
                   stale, spent, replaced, chatTimers, sh>>

Next ==
    \/ OnOpen
    \/ \E frame \in Frames : OnMessage(frame)
    \/ OnError
    \/ OnClose
    \/ StaleError
    \/ StaleClose
    \/ Remount
    \/ StartDemo
    \/ \E input \in Inputs : HandleSubmit(input)
    \/ \E choice \in Choices : HandlePermissionResponse(choice)
    \/ CardExitComplete
    \/ \E i \in 1..Len(demoTimers) : DemoTypingTimer(i)
    \/ DemoResponseTimer

Spec == Init /\ [][Next]_vars

(* a timer set by setTimeout fires: its callback is run by the event loop  *)
(* once its delay has passed                                               *)
DemoTypingTimers == \E i \in 1..Len(demoTimers) : DemoTypingTimer(i)

LiveSpec == Spec /\ WF_vars(DemoTypingTimers) /\ WF_vars(DemoResponseTimer)

(* ===================== hook scripts (scripts/*.sh) ===================== *)
(* A run of a script is the record sh: its inputs (env), the position of   *)
(* the run (pc), the shell variables it has set, the last message written  *)
(* to stderr (msg) and, once pc = "done", its exit status (exit).  The     *)
(* terminal takes no part in a run.                                        *)
\* the terminal is not mounted and no timer of the chat is outstanding
localsAtRest ==
    /\ isConnected = FALSE
    /\ readyState = "NULL"
    /\ sent = <<>>
    /\ cardExiting = FALSE
    /\ demoTimers = <<>>
    /\ uncaught = FALSE
    /\ turn = NoTurn
    /\ decided = 0
    /\ stale = "NONE"
    /\ spent = 0
    /\ replaced = FALSE
    /\ chatTimers = <<>>

terminalAtRest == store = initialState /\ localsAtRest

\* the run of the script is at the step pc
At(script, pc) == sh.script = script /\ sh.pc = pc

Exit(run, status, msg) ==
    [run EXCEPT !.pc = "done", !.exit = status, !.msg = msg]

(* text files are sequences of symbols; "\n" is the line terminator        *)
Absent == <<"absent">>

RECURSIVE StripNewlines(_)
\* $(cat file): command substitution drops trailing newlines
StripNewlines(t) ==
    IF t # <<>> /\ t[Len(t)] = "\n"
    THEN StripNewlines(SubSeq(t, 1, Len(t) - 1)) ELSE t

IndexOf(t, sym) ==
    IF Includes(t, sym)
    THEN CHOOSE i \in 1..Len(t) : t[i] = sym /\ \A j \in 1..(i - 1) : t[j] # sym
    ELSE 0

\* cut -d'#' -f1 / -f2 of a line: a line without the delimiter is printed
\* whole for every field
Cut(line, field) ==
    LET i == IndexOf(line, "#")
        rest == SubSeq(line, i + 1, Len(line))
        j == IndexOf(rest, "#")
    IN  IF i = 0 THEN line
        ELSE IF field = 1 THEN SubSeq(line, 1, i - 1)
        ELSE IF j = 0 THEN rest
        ELSE SubSeq(rest, 1, j - 1)

(* ------------------------- session-upload.sh --------------------------- *)
StateContents == {Absent, <<>>, <<"o/r", "#", "7">>, <<"junk">>}

UploadEnvs ==
    [transcriptPath : BOOLEAN,     \* .transcript_path present in the input
     sessionId : BOOLEAN,          \* .session_id present in the input
     fileExists : BOOLEAN,         \* [ -f "$TRANSCRIPT_PATH" ]
     encodes : BOOLEAN,            \* base64 | tr | jq wrote a body
     uploadExit : {0, 1},          \* status of gh api -X PUT
     sessionState : StateContents, \* $SESSION_STATE_DIR/$SESSION_ID
     uuidState : StateContents,    \* $SESSION_STATE_DIR/$UUID
     jsonlMatch : {<<>>, <<"o/r", "#", "9">>}, \* grep -oE ... | head -1
     commentExit : {0, 1}]         \* status of gh issue comment

UploadStart(env) ==
    [script |-> "session-upload", env |-> env, pc |-> "input", exit |-> 0,
     msg |-> "", FOCUS_REPO |-> <<>>, FOCUS_NUMBER |-> <<>>]

UploadInit ==
    /\ terminalAtRest
    /\ \E env \in UploadEnvs : sh = UploadStart(env)

\* lines 16-24
uploadInput(run) ==
    IF ~run.env.transcriptPath
    THEN Exit(run, 0, "No transcript_path in input")
    ELSE [run EXCEPT !.pc = "file"]

\* lines 26-29
uploadFile(run) ==
    IF ~run.env.fileExists
    THEN Exit(run, 0, "Transcript file not found")
    ELSE [run EXCEPT !.pc = "encode"]

\* lines 42-49
uploadEncode(run) ==
    IF ~run.env.encodes
    THEN Exit(run, 0, "Failed to encode transcript for upload")
    ELSE [run EXCEPT !.pc = "put"]

\* mutant: the status of the failed upload becomes the exit status
uploadPut_Propagates(run) ==
    IF run.env.uploadExit # 0
    THEN Exit(run, run.env.uploadExit, "Upload failed")
    ELSE [run EXCEPT !.pc = "focus"]

\* lines 52-66
uploadPut(run) ==
    IF run.env.uploadExit # 0
    THEN Exit(run, 0, "Upload failed")
    ELSE [run EXCEPT !.pc = "focus"]

\* one assignment pair FOCUS_REPO / FOCUS_NUMBER from a state file or match
focusFrom(run, content) ==
    [run EXCEPT !.FOCUS_REPO = Cut(StripNewlines(content), 1),
                !.FOCUS_NUMBER = Cut(StripNewlines(content), 2)]

\* lines 69-95
uploadFocus(run) ==
    LET primary == IF run.env.sessionId /\ run.env.sessionState # Absent
                   THEN focusFrom(run, run.env.sessionState) ELSE run
        secondary == IF primary.FOCUS_NUMBER = <<>> /\ run.env.uuidState # Absent
                     THEN focusFrom(primary, run.env.uuidState) ELSE primary
        fallback == IF secondary.FOCUS_NUMBER = <<>> /\ run.env.jsonlMatch # <<>>
                    THEN focusFrom(secondary, run.env.jsonlMatch) ELSE secondary
    IN  [fallback EXCEPT !.pc = "comment"]

\* lines 98-118
uploadComment(run) ==
    IF run.FOCUS_REPO # <<>> /\ run.FOCUS_NUMBER # <<>>
    THEN IF run.env.commentExit # 0
         THEN Exit(run, 0, "Failed to post session comment")
         ELSE Exit(run, 0, "")
    ELSE Exit(run, 0, "skipping issue comment")

UploadInput ==
    /\ At("session-upload", "input")
    /\ sh' = uploadInput(sh)
    /\ UNCHANGED termVars

UploadFile ==
    /\ At("session-upload", "file")
    /\ sh' = uploadFile(sh)
    /\ UNCHANGED termVars

UploadEncode ==
    /\ At("session-upload", "encode")
    /\ sh' = uploadEncode(sh)
    /\ UNCHANGED termVars

UploadPut ==
    /\ At("session-upload", "put")
    /\ sh' = uploadPut(sh)
    /\ UNCHANGED termVars

UploadFocus ==
    /\ At("session-upload", "focus")
    /\ sh' = uploadFocus(sh)
    /\ UNCHANGED termVars

UploadComment ==
    /\ At("session-upload", "comment")
    /\ sh' = uploadComment(sh)
    /\ UNCHANGED termVars

UploadNext ==
    \/ UploadInput
    \/ UploadFile
    \/ UploadEncode
    \/ UploadPut
    \/ UploadFocus
    \/ UploadComment

UploadSpec == UploadInit /\ [][UploadNext]_vars

(* ------------------------ git-commit-guard.sh -------------------------- *)
\* longest command, in tokens
MaxCmd == 4

\* the pieces a command is made of: a token stands for a substring that a
\* pattern of the script matches or misses as a whole
GitCommit == "git commit"
IssueRef == "Refs o/r#1"
PartialRef == "Refs o/r#"
TrailerKey == "Conversation:"
Url == "https://c/1"
OtherUrl == "https://c/2"

Tokens == {GitCommit, IssueRef, PartialRef, TrailerKey, Url, OtherUrl}

Commands == UNION {[1..n -> Tokens] : n \in 0..MaxCmd}

UrlFiles == {Absent, <<>>, <<"\n">>, <<Url, "\n">>}

GuardStart(command, file) ==
    [script |-> "git-commit-guard", command |-> command, urlFile |-> file,
     pc |-> "filter", exit |-> 0, msg |-> ""]

GuardInit ==
    /\ terminalAtRest
    /\ \E command \in Commands, file \in UrlFiles :
          sh = GuardStart(command, file)

\* [[ "$command" =~ git\ commit ]]
MatchesGitCommit(command) == Includes(command, GitCommit)

\* [[ "$command" =~ Refs\ [a-zA-Z0-9_-]+/[a-zA-Z0-9_-]+#[0-9]+ ]]
MatchesIssueRef(command) == Includes(command, IssueRef)

\* [[ "$command" =~ Conversation: ]]
MatchesTrailerKey(command) == Includes(command, TrailerKey)

\* lines 9-17
guardFilter(run) ==
    IF ~MatchesGitCommit(run.command)
    THEN Exit(run, 0, "")
    ELSE [run EXCEPT !.pc = "issue-ref"]

\* lines 21-40
guardIssueRef(run) ==
    IF ~MatchesIssueRef(run.command)
    THEN Exit(run, 2, "require-issue-ref")
    ELSE [run EXCEPT !.pc = "trailer"]

\* lines 43-62
guardTrailer(run) ==
    IF run.urlFile # Absent
       /\ StripNewlines(run.urlFile) # <<>>
       /\ ~MatchesTrailerKey(run.command)
    THEN Exit(run, 2, "require-conversation-link")
    ELSE Exit(run, 0, "")

GuardFilter ==
    /\ At("git-commit-guard", "filter")
    /\ sh' = guardFilter(sh)
    /\ UNCHANGED termVars

GuardIssueRef ==
    /\ At("git-commit-guard", "issue-ref")
    /\ sh' = guardIssueRef(sh)
    /\ UNCHANGED termVars

GuardTrailer ==
    /\ At("git-commit-guard", "trailer")
    /\ sh' = guardTrailer(sh)
    /\ UNCHANGED termVars

GuardNext ==
    \/ GuardFilter
    \/ GuardIssueRef
    \/ GuardTrailer

GuardSpec == GuardInit /\ [][GuardNext]_vars

(* ============== tutorial navigation and chat components ================ *)
\* everything but the store and the timers of the chat
uiRest == <<isConnected, readyState, sent, cardExiting, demoTimers, uncaught,
            turn, decided, stale, spent, replaced, sh>>

(* ----------------- TutorialControls, TutorialProgress ------------------ *)
(* State after the mount of App, before any demo is started.               *)
NavInit ==
    /\ store = onAppMount(initialState)
    /\ localsAtRest
    /\ sh = NoScript

isFirstStep(s) == s.currentStep = 0

isLastStep(s) == s.currentStep = Len(Steps) - 1

handleNext(s) == IF ~isLastStep(s) THEN nextStep(s) ELSE s

handlePrevious(s) == IF ~isFirstStep(s) THEN previousStep(s) ELSE s

\* mutant: a click on any step of the list jumps to it
handleStepClick_AnyStep(s, stepIndex) == jumpToStep(s, stepIndex)

handleStepClick(s, stepIndex) ==
    IF stepIndex <= s.currentStep THEN jumpToStep(s, stepIndex) ELSE s

\* the indices of steps.map: every step of the list can be clicked
StepIndices == 0..(Len(Steps) - 1)

HandleNext ==
    /\ store' = handleNext(store)
    /\ Len(store'.completedSteps) <= MaxCompleted
    /\ UNCHANGED <<uiRest, chatTimers>>

HandlePrevious ==
    /\ store' = handlePrevious(store)
    /\ UNCHANGED <<uiRest, chatTimers>>

HandleStepClick(stepIndex) ==
    /\ store' = handleStepClick(store, stepIndex)
    /\ UNCHANGED <<uiRest, chatTimers>>

NavNext ==
    \/ HandleNext
    \/ HandlePrevious
    \/ \E stepIndex \in StepIndices : HandleStepClick(stepIndex)

NavSpec == NavInit /\ [][NavNext]_vars

(* ----------------------------- ClaudeChat ------------------------------ *)
ChatInputs ==
    {<<>>, <<" ">>, <<" ", "x">>, <<"/rubber-duck", " ">>, <<"/help">>,
     <<"Notification", "order">>}

ChatQuestions == <<"questions">>
ChatCommandPrefix == <<"command:">>
ChatUnderstood == <<"understood">>
ChatBeSpecific == <<"specific">>

\* String.prototype.toLowerCase, symbol by symbol
LowerSymbol(sym) == IF sym = "Notification" THEN "notification" ELSE sym

ToLowerCase(t) == [i \in 1..Len(t) |-> LowerSymbol(t[i])]

\* userInput.startsWith('/')
StartsWithSlash(t) == t # <<>> /\ Head(t) \in {"/rubber-duck", "/help"}

\* the response chosen by the 2000 ms callback
ChatReply(userInput) ==
    IF StartsWithSlash(userInput)
    THEN IF \/ Includes(userInput, "/rubber-duck")
            \/ Includes(userInput, "notification")
         THEN ChatQuestions
         ELSE ChatCommandPrefix \o userInput
    ELSE IF /\ Includes(ToLowerCase(userInput), "notification")
            /\ Includes(ToLowerCase(userInput), "order")
         THEN ChatUnderstood
         ELSE ChatBeSpecific

ChatInit ==
    /\ store = initialState
    /\ localsAtRest
    /\ sh = NoScript

ChatWithin(s, timers) == Len(s.chatMessages) + Len(timers) <= MaxChat

(* handleSubmit of ClaudeChat: refused while isChatTyping, which the       *)
(* 500 ms timer sets                                                       *)
ChatSubmit(input) ==
    /\ IF Trim(input) = <<>> \/ store.isChatTyping
       THEN UNCHANGED <<store, chatTimers>>
       ELSE /\ store' = addChatMessage(store, "user", Trim(input))
            /\ chatTimers' = Append(chatTimers,
                   [userInput |-> Trim(input), phase |-> "scheduled"])
            /\ ChatWithin(store', chatTimers')
    /\ UNCHANGED uiRest

(* the 500 ms timer of the i-th outstanding reply                          *)
ChatTypingTimer(i) ==
    /\ i \in 1..Len(chatTimers)
    /\ chatTimers[i].phase = "scheduled"
    /\ \A j \in 1..(i - 1) : chatTimers[j].phase = "typing"
    /\ chatTimers' = [chatTimers EXCEPT ![i].phase = "typing"]
    /\ store' = setChatTyping(store, TRUE)
    /\ UNCHANGED uiRest

onChatResponse(s, userInput) ==
    addChatMessage(setChatTyping(s, FALSE), "assistant", ChatReply(userInput))

(* the 2000 ms timer of the oldest outstanding reply                       *)
ChatResponseTimer ==
    /\ chatTimers # <<>>
    /\ Head(chatTimers).phase = "typing"
    /\ chatTimers' = Tail(chatTimers)
    /\ store' = onChatResponse(store, Head(chatTimers).userInput)
    /\ UNCHANGED uiRest

ChatNext ==
    \/ \E input \in ChatInputs : ChatSubmit(input)
    \/ \E i \in 1..Len(chatTimers) : ChatTypingTimer(i)
    \/ ChatResponseTimer

ChatSpec == ChatInit /\ [][ChatNext]_vars

(* ======================= properties of the claims ====================== *)
FramesOf(type) == {f \in ObjectFrames : f.type = type}

hist == store.terminalHistory

Pending == store.permissionPrompt # None

BufferHolds == store.isStreaming /\ store.streamingText # <<>>

\* the last n transcript entries
LastEntries(n) ==
    IF Len(hist) < n THEN <<>> ELSE SubSeq(hist, Len(hist) - n + 1, Len(hist))

C3_PartialDiscarded ==
    [][\A f \in FramesOf("ai_response") :
          (OnMessage(f) /\ BufferHolds)
          => store'.terminalHistory = Append(hist, Entry("ai", f.content))]_vars

\* C3 amended: ai_response(text) arriving while the buffer is active and
\* non-empty finalizes the buffer: the transcript gains exactly two agent
\* entries, the buffered partial text and then the ai_response text; the
\* buffer ends empty and inactive and agentBusy is false.
C3_PartialFolded ==
    [][\A f \in FramesOf("ai_response") :
          (OnMessage(f) /\ BufferHolds)
          => /\ store'.terminalHistory =
                  hist \o <<Entry("ai", store.streamingText),
                            Entry("ai", f.content)>>
             /\ store'.streamingText = <<>>
             /\ ~store'.isStreaming
             /\ ~store'.isAiTyping]_vars

C3_Witness ==
    /\ WsOpen
    /\ \E c \in Chunks, r \in ResponseTexts :
          LastEntries(2) = <<Entry("ai", c), Entry("ai", r)>>

\* C4: tool_use(text) while the buffer is active and non-empty appends
\* exactly two agent entries, the accumulated text and then the tool_use
\* text; while the buffer is inactive or empty it appends exactly one entry,
\* the tool_use text.
C4_ToolUseEntries ==
    [][\A f \in FramesOf("tool_use") :
          OnMessage(f)
          => IF BufferHolds
             THEN store'.terminalHistory =
                    hist \o <<Entry("ai", store.streamingText),
                              Entry("ai", f.content)>>
             ELSE store'.terminalHistory = Append(hist, Entry("ai", f.content))]_vars

C4_Witness ==
    /\ WsOpen
    /\ \E c \in Chunks, t \in ToolTexts :
          LastEntries(2) = <<Entry("ai", c), Entry("ai", t)>>

\* C5: response_complete in any state leaves no pending request, agentBusy
\* false and the buffer empty and inactive; text held by the buffer is
\* appended as one agent entry, and nothing is appended otherwise.
C5_ResponseCompleteIdle ==
    [][\A f \in FramesOf("response_complete") :
          OnMessage(f)
          => /\ store'.permissionPrompt = None
             /\ ~store'.isAiTyping
             /\ store'.streamingText = <<>>
             /\ ~store'.isStreaming
             /\ store'.terminalHistory =
                  IF store.streamingText # <<>>
                  THEN Append(hist, Entry("ai", store.streamingText))
                  ELSE hist]_vars

C5_Witness ==
    /\ WsOpen
    /\ cardExiting
    /\ ~Pending /\ ~store.isAiTyping /\ ~store.isStreaming
    /\ decided = 0
    /\ \E c \in Chunks : LastEntries(1) = <<Entry("ai", c)>>

\* C6: however often the decision handler is invoked for one permission
\* prompt (no new permission_prompt event in between), exactly one outbound
\* permission_response is sent for it.
C6_OneResponsePerPrompt == decided <= 1

\* C7: a permission decision submitted while no request is pending is a
\* no-op: nothing is sent, and agentBusy, the streaming buffer, the pending
\* request and the transcript are unchanged.
C7_StaleDecisionNoOp ==
    [][\A choice \in Choices :
          (HandlePermissionResponse(choice) /\ ~Pending)
          => UNCHANGED <<sent, store>>]_vars

\* C8 as stated: a transport close while a request is pending leaves no
\* pending request and appends exactly one entry, the system disconnect
\* notice, whatever the streaming buffer held.
C8_CloseAppendsOnlyNotice ==
    [][(OnClose /\ Pending)
       => /\ store'.permissionPrompt = None
          /\ store'.terminalHistory =
               Append(hist, Entry("system", LostNotice))]_vars

\* C8 amended: a transport close while a request is pending leaves no
\* pending request and appends the system disconnect notice as the last
\* entry; it is the only entry appended when the streaming buffer is
\* inactive or empty, and it is preceded by one agent entry holding the
\* buffered text when the buffer is active and non-empty.
C8_CloseFoldsThenNotice ==
    [][(OnClose /\ Pending)
       => /\ store'.permissionPrompt = None
          /\ store'.terminalHistory =
               hist \o (IF BufferHolds
                        THEN <<Entry("ai", store.streamingText)>> ELSE <<>>)
                    \o <<Entry("system", LostNotice)>>]_vars

C8_Witness ==
    /\ readyState = "CLOSED"
    /\ cardExiting
    /\ ~Pending
    /\ \E c \in Chunks :
          LastEntries(2) = <<Entry("ai", c), Entry("system", LostNotice)>>

\* C9: the transport-closed transition runs once per disconnect: the close
\* callback that follows an error callback of the same lost connection
\* adds no second system entry and leaves the state as the first callback
\* left it.
C9_OneTransitionPerDisconnect ==
    [][(OnClose /\ readyState = "FAILED") => store' = store]_vars

\* C10: an inbound frame that is not valid JSON, or does not decode to an
\* object with a type, is dropped: the handler raises no exception and
\* transcript, buffer, pending request and agentBusy are unchanged.
C10_BadFrameDropped ==
    [][\A f \in BadFrames :
          OnMessage(f) => (~uncaught' /\ store' = store)]_vars

IsPrefix(a, b) == Len(a) <= Len(b) /\ SubSeq(b, 1, Len(a)) = a

LastSent == IF sent = <<>> THEN None ELSE sent[Len(sent)]

\* C11: an inbound event whose type is pong or is not a recognized type
\* leaves transcript, streaming buffer, pending request, agentBusy (the
\* whole store) and the connection state unchanged, in every state.
C11_UnrecognizedIgnored ==
    [][\A f \in FramesOf("pong") \cup FramesOf("unknown") :
          OnMessage(f) => UNCHANGED <<store, isConnected, readyState>>]_vars

\* a state in which every component the claim names is set and the two
\* frames are deliverable (the state is then its own successor)
C11_Witness ==
    /\ WsOpen /\ isConnected
    /\ Pending /\ store.isAiTyping /\ BufferHolds
    /\ \A f \in FramesOf("pong") \cup FramesOf("unknown") : ENABLED OnMessage(f)

\* C12: the transcript is append-only: in every step (inbound event, user
\* command, permission decision, demo timer, transport open, close or error,
\* of the socket in use or of a replaced one) the transcript before the step
\* is a prefix of the transcript after it, except for the clear issued by
\* the demo start action, which leaves its own notice as the only entry.
C12_AppendOnly ==
    [][\/ IsPrefix(hist, hist')
       \/ StartDemo /\ hist' = <<Entry("system", DemoActivatedNotice)>>]_vars

\* the socket is open, so its connected notice was appended; the transcript
\* was cleared since and has grown again
C12_Witness ==
    /\ WsOpen
    /\ stale = "NONE"
    /\ \A i \in 1..Len(hist) : hist[i] # Entry("system", ConnectedNotice)
    /\ Head(hist) = Entry("system", DemoActivatedNotice)
    /\ Len(hist) > 1

\* C13 as stated: each of tool_use, tool_result, ai_response and
\* response_complete, received while the buffer is active and holds text,
\* first finalizes the buffer: the buffered text is the first entry the
\* event appends and the buffer ends inactive.
C13_EveryAppendFinalizes ==
    [][\A f \in FramesOf("tool_use") \cup FramesOf("tool_result")
               \cup FramesOf("ai_response") \cup FramesOf("response_complete") :
          (BufferHolds /\ OnMessage(f))
          => /\ Len(hist') > Len(hist)
             /\ hist'[Len(hist) + 1] = Entry("ai", store.streamingText)
             /\ ~store'.isStreaming]_vars

\* C13 amended: tool_use, ai_response and response_complete, received
\* while the buffer is active and holds text, first finalize the buffer: the
\* buffered text is the first entry the event appends and the buffer ends
\* empty and inactive.  tool_result does not finalize: it appends its system
\* entry and leaves the buffer as it was, so text streamed before a
\* tool_result enters the transcript after the tool_result entry.
C13_BoundaryEventsFinalize ==
    [][/\ \A f \in FramesOf("tool_use") \cup FramesOf("ai_response")
                  \cup FramesOf("response_complete") :
            (BufferHolds /\ OnMessage(f))
            => /\ Len(hist') > Len(hist)
               /\ hist'[Len(hist) + 1] = Entry("ai", store.streamingText)
               /\ store'.streamingText = <<>>
               /\ ~store'.isStreaming
       /\ \A f \in FramesOf("tool_result") :
            OnMessage(f)
            => /\ hist' = Append(hist, Entry("system", f.content))
               /\ store'.streamingText = store.streamingText
               /\ store'.isStreaming = store.isStreaming]_vars

C13_Witness ==
    /\ ~store.isStreaming
    /\ ~turn.open /\ Len(turn.chunks) = 1
    /\ \E r \in ResultTexts :
          LastEntries(2) = <<Entry("system", r), Entry("ai", Flatten(turn.chunks))>>

\* C14: while the socket is not open every non-empty command schedules one
\* local response and sends nothing; the response timer appends exactly one
\* agent entry, the reply to the oldest outstanding command, and removes
\* that response only; when it was the last one agentBusy is false; and
\* every outstanding response is eventually delivered.
C14_DemoAnswers ==
    /\ [][/\ \A input \in Inputs :
               (HandleSubmit(input) /\ ~WsOpen /\ Trim(input) # <<>>)
               => /\ demoTimers' = Append(demoTimers,
                        [command |-> Trim(input), phase |-> "scheduled"])
                  /\ sent' = sent
          /\ DemoResponseTimer
             => /\ hist' = Append(hist,
                      Entry("ai", DemoReply(Head(demoTimers).command)))
                /\ demoTimers' = Tail(demoTimers)
                /\ (demoTimers' = <<>> => ~store'.isAiTyping)
          /\ Len(demoTimers') < Len(demoTimers) => DemoResponseTimer]_vars
    /\ (demoTimers # <<>>) ~> (demoTimers = <<>>)

C14_Witness ==
    /\ ~WsOpen
    /\ demoTimers = <<>>
    /\ ~store.isAiTyping
    /\ \E input \in Inputs :
          /\ Trim(input) # <<>>
          /\ LastEntries(2) = <<Entry("user", Trim(input)),
                                Entry("ai", DemoReply(Trim(input)))>>

\* C15: a decision c for a pending permission request on an open socket
\* sends exactly one message {type: permission_response, choice: c}, the
\* only one sent for that request, and leaves no request pending, the
\* streaming buffer empty and agentBusy true.
C15_DecisionOnOpenSocket ==
    [][\A choice \in Choices :
          (HandlePermissionResponse(choice) /\ Pending /\ WsOpen)
          => /\ sent' = Append(sent, Msg("permission_response", <<choice>>))
             /\ decided = 0 /\ decided' = 1
             /\ store'.permissionPrompt = None
             /\ store'.streamingText = <<>>
             /\ store'.isAiTyping]_vars

C15_Witness ==
    /\ WsOpen
    /\ decided = 1
    /\ LastSent \in {Msg("permission_response", <<c>>) : c \in Choices}
    /\ ~Pending /\ store.isAiTyping /\ store.streamingText = <<>>
    /\ cardExiting

\* C16: whenever a connection opens, the first one or one made after an
\* earlier connection, the streaming buffer is empty and inactive and no
\* permission request is pending.
C16_FreshOnOpen ==
    [][OnOpen => /\ store'.streamingText = <<>>
                 /\ ~store'.isStreaming
                 /\ store'.permissionPrompt = None]_vars

\* C17: a run of session-upload.sh ends with exit status 0 on every path.
C17_AlwaysExitsZero ==
    (sh.script = "session-upload" /\ sh.pc = "done") => sh.exit = 0

\* the run that uploaded and failed to post the issue comment
C17_Witness ==
    /\ sh.script = "session-upload"
    /\ sh.pc = "done"
    /\ sh.exit = 0
    /\ sh.env.uploadExit = 0
    /\ sh.msg = "Failed to post session comment"

\* the trailer "Conversation: <url>" occurs in the command
HasTrailer(command, url) ==
    \E i \in 1..Len(command) :
        /\ command[i] = TrailerKey
        /\ i + Len(url) <= Len(command)
        /\ SubSeq(command, i + 1, i + Len(url)) = url

\* C18: git-commit-guard.sh exits 0 for a command without 'git commit';
\* for a command with 'git commit' it exits 0 exactly if the command holds
\* an issue reference and, when the conversation-url file exists and is
\* non-empty, the trailer 'Conversation: <that URL>'; otherwise it exits 2.
C18_GuardExitStatus ==
    (sh.script = "git-commit-guard" /\ sh.pc = "done")
    => LET url == StripNewlines(sh.urlFile)
           allowed ==
             \/ ~MatchesGitCommit(sh.command)
             \/ /\ MatchesIssueRef(sh.command)
                /\ (sh.urlFile # Absent /\ sh.urlFile # <<>>)
                   => HasTrailer(sh.command, url)
       IN  sh.exit = IF allowed THEN 0 ELSE 2

\* the session is Connected.AgentBusy: connected, no request pending, and
\* typing or streaming
AgentBusy ==
    /\ WsOpen
    /\ ~Pending
    /\ (store.isAiTyping \/ store.isStreaming)

\* C19 as stated: after a stream_chunk received on the open socket the
\* fragment has been appended to the buffer, the buffer is active and the
\* session is AgentBusy.
C19_ChunkEnsuresBusy ==
    [][\A f \in FramesOf("stream_chunk") :
          (OnMessage(f) /\ WsOpen)
          => /\ store'.streamingText =
                  (IF store.isStreaming THEN store.streamingText ELSE <<>>)
                      \o f.content
             /\ store'.isStreaming
             /\ AgentBusy']_vars

\* C19 amended: after a stream_chunk received on the open socket, in any
\* state (also after typing_end, and with no typing_start before), the
\* fragment has been appended to the buffer and the buffer is active; the
\* event changes nothing else: agentBusy keeps its value (false after a
\* typing_end) and a pending permission request stays pending, so the
\* session is AgentBusy afterwards exactly when no request is pending.
C19_ChunkAppendsOnly ==
    [][\A f \in FramesOf("stream_chunk") :
          (OnMessage(f) /\ WsOpen)
          => /\ store'.streamingText =
                  (IF store.isStreaming THEN store.streamingText ELSE <<>>)
                      \o f.content
             /\ store'.isStreaming
             /\ store'.isAiTyping = store.isAiTyping
             /\ store'.permissionPrompt = store.permissionPrompt
             /\ hist' = hist
             /\ AgentBusy' <=> ~Pending]_vars

C19_Witness ==
    /\ WsOpen
    /\ Pending /\ ~store.isAiTyping
    /\ BufferHolds
    /\ turn = NoTurn

\* C20: submitting a command whose trimmed text is non-empty while the
\* socket is open appends exactly one user entry with the trimmed text,
\* sends exactly one command message with that content and sets agentBusy;
\* submitting an empty or whitespace-only command changes nothing and sends
\* nothing.
C20_SubmitOnOpenSocket ==
    [][\A input \in Inputs :
          HandleSubmit(input)
          => IF Trim(input) = <<>>
             THEN UNCHANGED <<store, sent, demoTimers>>
             ELSE WsOpen
                  => /\ hist' = Append(hist, Entry("user", Trim(input)))
                     /\ sent' = Append(sent, Msg("command", Trim(input)))
                     /\ store'.isAiTyping
                     /\ UNCHANGED demoTimers]_vars

C20_Witness ==
    /\ WsOpen
    /\ store.isAiTyping
    /\ \E input \in Inputs :
          /\ Trim(input) # input
          /\ Trim(input) # <<>>
          /\ LastEntries(1) = <<Entry("user", Trim(input))>>
          /\ LastSent = Msg("command", Trim(input))

\* C21: at most one permission request is pending: a permission_prompt
\* event received while a request is pending replaces it, so that the
\* pending request holds the text of the latest prompt and no message was
\* sent for the replaced one; the next decision, taken on the open socket,
\* sends one permission_response, the only one since the latest prompt,
\* and every decision leaves no request pending.
C21_LatestPromptPending ==
    [][/\ \A f \in FramesOf("permission_prompt") :
            (Pending /\ OnMessage(f))
            => /\ store'.permissionPrompt = f.content
               /\ sent' = sent
               /\ decided = 0 /\ decided' = 0
       /\ \A choice \in Choices :
            (Pending /\ HandlePermissionResponse(choice))
            => /\ store'.permissionPrompt = None
               /\ WsOpen
                  => /\ sent' = Append(sent,
                                       Msg("permission_response", <<choice>>))
                     /\ decided = 0 /\ decided' = 1]_vars

C21_Witness ==
    /\ WsOpen
    /\ replaced
    /\ ~Pending
    /\ decided = 1
    /\ \E choice \in Choices :
          sent = <<Msg("permission_response", <<choice>>)>>

\* C22: after a typing_start event received on the open socket, in any
\* state (idle, busy, with text buffered or with a request pending), the
\* streaming buffer is active with empty text and agentBusy is true.
C22_TypingStartOpensTurn ==
    [][\A f \in FramesOf("typing_start") :
          (WsOpen /\ OnMessage(f))
          => /\ store'.isStreaming
             /\ store'.streamingText = <<>>
             /\ store'.isAiTyping]_vars

C22_Witness ==
    /\ WsOpen
    /\ turn.open /\ turn.chunks = <<>>
    /\ store.isStreaming /\ store.streamingText = <<>>
    /\ store.isAiTyping
    /\ Pending

C24_IndicatorsFollowSocket ==
    /\ [][(OnClose \/ OnError) => ~isConnected' /\ ~store'.isConnected]_vars
    /\ [](~WsOpen => ~isConnected /\ ~store.isConnected)

\* C25: after the transport-closed transition the session is Disconnected
\* and agentBusy is false, whatever the state before the close.
C25_CloseEndsBusy ==
    [][OnClose => /\ ~isConnected'
                  /\ readyState' = "CLOSED"
                  /\ ~store'.isAiTyping]_vars

Outstanding == \E i \in 1..Len(demoTimers) : demoTimers[i].phase = "typing"

\* C27: in demo mode (the socket is not open and no replaced socket has
\* callbacks outstanding), while a local response is outstanding agentBusy
\* is true, also when the timers of several demo commands overlap.
C27_BusyWhileOutstanding ==
    (~WsOpen /\ stale = "NONE" /\ Outstanding) => store.isAiTyping

\* C28: the callbacks of a socket that was replaced by a remount (its
\* error and close events, and the messages that arrive on it while the
\* socket in ws is not open) leave the state of the session as it is: they
\* append no transcript entry, do not finalize the streaming buffer and
\* clear no permission request.
C28_StaleCallbacksInert ==
    [][(\/ StaleClose
        \/ StaleError
        \/ ~WsOpen /\ \E f \in Frames : OnMessage(f))
       => /\ hist' = hist
          /\ store'.streamingText = store.streamingText
          /\ store'.isStreaming = store.isStreaming
          /\ store'.permissionPrompt = store.permissionPrompt]_vars

\* user and assistant entries alternate, starting with a user entry
Alternates(messages) ==
    \A i \in 1..Len(messages) :
       messages[i].type = (IF i % 2 = 1 THEN "user" ELSE "assistant")

\* C29: in ClaudeChat at most one simulated reply is outstanding,
\* chatMessages alternates user and assistant entries, and isChatTyping is
\* false when no reply is outstanding.
C29_OneReplyOutstanding ==
    /\ Len(chatTimers) <= 1
    /\ Alternates(store.chatMessages)
    /\ chatTimers = <<>> => ~store.isChatTyping

\* C30: after any sequence of Next, Previous and clicks on the steps of
\* the progress list, currentStep is within [0, steps.length - 1] and every
\* step with an index lower than currentStep has its id in completedSteps.
C30_StepsBelowCompleted ==
    /\ store.currentStep \in 0..(Len(Steps) - 1)
    /\ \A i \in 0..(store.currentStep - 1) :
          \E j \in 1..Len(store.completedSteps) :
             store.completedSteps[j] = StepAt(i).id

C30_Witness ==
    /\ store.currentStep = 1
    /\ store.completedSteps = <<"welcome", "concept">>

====
